---- MODULE Spec2Model ----
(***************************************************************************)
(* State-machine model of src/service-worker.js (PIX notifier service      *)
(* worker): install / activate lifecycle, the cache-first fetch            *)
(* interceptor, push notifications, notification clicks, the message       *)
(* channel and the background-sync hook.                                   *)
(*                                                                         *)
(* URLs are sequences of tokens: the origin, then "/" and the path         *)
(* segments, so that String.prototype.includes is a contiguous             *)
(* sub-sequence test.                                                      *)
(***************************************************************************)
EXTENDS Naturals, Sequences, FiniteSets, TLC

\* ------------------------------------------------------------------ bounds
MaxFetch == 2        \* fetch events handled concurrently
MaxWindows == 2      \* open application windows
MaxInbox == 1        \* undelivered replies held by one message port

\* ------------------------------------------------------- program constants
CACHE_NAME == "pix-notifier-v1"
Origin == "https://app.example"
urlsToCache == << <<Origin, "/">>,
                  <<Origin, "/", "index.html">>,
                  <<Origin, "/", "manifest.json">> >>
StatusOk == 200
StatusOffline == 503

\* undefined / null: the absent request, response, notification or message.
None == [absent |-> TRUE]

\* ---------------------------------------------------------------- helpers
\* String.prototype.includes on token sequences.
Includes(s, pat) ==
    \E i \in 1..(Len(s) + 1 - Len(pat)) : SubSeq(s, i, i + Len(pat) - 1) = pat

Range(s) == { s[i] : i \in 1..Len(s) }

ApiPattern == <<"/", "api", "/">>
EntryPattern == <<"index.html">>

GET(url) == [method |-> "GET", url |-> url]

\* The requests the application issues.
OtherOrigin == "https://cdn.example"
Requests ==
    { GET(urlsToCache[i]) : i \in 1..Len(urlsToCache) } \cup
    { GET(<<Origin, "/", "api", "/", "pix">>),
      GET(<<Origin, "/", "app.js">>),
      GET(<<OtherOrigin, "/", "icon.png">>),
      [method |-> "POST", url |-> <<Origin, "/", "app.js">>] }

Bodies == {"b1", "b2"}
\* The statuses the network answers with: success and not found.
NetStatuses == {StatusOk, 404}

\* What the network can answer: a success with one of the bodies, or not found.
NetResponses ==
    { [status |-> st, contentType |-> "text/html",
       body |-> IF st = StatusOk THEN b ELSE "not found"] :
         st \in NetStatuses, b \in Bodies }

\* What the network answers to the manifest requests of install.
ManifestResponses ==
    { r \in NetResponses : r.status # StatusOk \/ r.body = "b1" }

\* new Response('Offline - Sem conexão', {status: 503, ...})
OfflineResponse ==
    [status |-> StatusOffline, contentType |-> "text/plain",
     body |-> "Offline - Sem conexao"]

\* Response.clone(): a second response with the same status, headers, body.
Clone(r) == [status |-> r.status, contentType |-> r.contentType, body |-> r.body]

\* ------------------------------------------------------------ CacheStorage
\* CacheStorage is a sequence of named caches in creation order; each cache
\* maps request keys (method + URL) to stored responses.
EmptyEntries == [k \in {} |-> None]

CacheNamesOf(cs) == { cs[i].name : i \in 1..Len(cs) }
CacheIndex(cs, name) == CHOOSE i \in 1..Len(cs) : cs[i].name = name
HasCache(cs, name) == name \in CacheNamesOf(cs)
EntriesOf(cs, name) ==
    IF HasCache(cs, name) THEN cs[CacheIndex(cs, name)].entries ELSE EmptyEntries

\* caches.open(name): creates the cache when it does not exist.
CacheOpen(cs, name) ==
    IF HasCache(cs, name) THEN cs
    ELSE Append(cs, [name |-> name, entries |-> EmptyEntries])

\* Variant of CachePut for C12: the put drops the other entries of the cache.
CachePutAlone(cs, name, req, resp) ==
    [i \in 1..Len(cs) |->
        IF cs[i].name = name
        THEN [cs[i] EXCEPT !.entries = [k \in {req} |-> resp]]
        ELSE cs[i]]

\* cache.put(request, response) on the cache called name.
PutEntry(entries, req, resp) ==
    [k \in DOMAIN entries \cup {req} |-> IF k = req THEN resp ELSE entries[k]]
CachePut(cs, name, req, resp) ==
    [i \in 1..Len(cs) |->
        IF cs[i].name = name
        THEN [cs[i] EXCEPT !.entries = PutEntry(cs[i].entries, req, resp)]
        ELSE cs[i]]

\* caches.delete(name)
CacheDelete(cs, name) == SelectSeq(cs, LAMBDA c : c.name # name)

\* caches.keys()
CacheKeys(cs) == [i \in 1..Len(cs) |-> cs[i].name]

\* caches.match(request): the first cache, in creation order, that holds the
\* key answers; a request that is not a GET matches nothing.
CacheMatch(cs, req) ==
    IF req.method # "GET" THEN None
    ELSE LET hits == { i \in 1..Len(cs) : req \in DOMAIN cs[i].entries }
         IN IF hits = {} THEN None
            ELSE LET first == CHOOSE i \in hits : \A j \in hits : i <= j
                 IN cs[first].entries[req]

\* ------------------------------------------------------------------- state
VARIABLES
    caches,        \* CacheStorage of the origin
    state,         \* ServiceWorker.state of this version
    skipWaitingFlag, \* set by self.skipWaiting()
    controller,    \* which version controls the open windows
    install,       \* progress of the install handler's promise chain
    activate,      \* activate handler: cacheNames and the deletions running
    fetches,       \* the fetch events being handled, by slot
    notification,  \* the displayed notification with tag pix-notification
    push,          \* the options handed to showNotification, until shown
    click,         \* the notificationclick handler and the calls it made
    windows,       \* URLs of the open application windows (clients)
    msg,           \* the message event being dispatched
    inbox,         \* per reply port, the messages posted to it
    sync           \* progress of the sync handler

vars == <<caches, state, skipWaitingFlag, controller, install, activate,
          fetches, notification, push, click, windows, msg, inbox, sync>>

lifecycleVars == <<state, skipWaitingFlag, controller, install, activate>>
notifyVars == <<notification, push, click, windows>>
channelVars == <<msg, inbox>>

\* Caches left behind by earlier deployments (other version names).
StaleResponse == [status |-> StatusOk, contentType |-> "text/html", body |-> "b1"]
StaleCache(name, keys) ==
    [name |-> name, entries |-> [k \in keys |-> StaleResponse]]
InitialCaches ==
    { <<>>,
      << StaleCache("pix-notifier-v0", {GET(<<Origin, "/", "app.js">>)}) >>,
      << StaleCache("pix-notifier-v0", {GET(urlsToCache[1])}),
         StaleCache("workbox-tmp", {}) >> }

\* Reply ports (MessageChannel.port2) the windows hand over with a message.
Ports == {"p1", "p2"}

RootUrl == <<Origin, "/">>
WindowUrls == { RootUrl, <<Origin, "/", "index.html">> }

IdleClick == [pc |-> "idle", action |-> "", focused |-> <<>>, opened |-> <<>>]

FetchIds == 1..MaxFetch
IdleFetch ==
    [pc |-> "idle", request |-> None, hit |-> FALSE, net |-> "none",
     response |-> None, write |-> "none", toCache |-> None]

Init ==
    /\ caches \in InitialCaches
    /\ state = "parsed"
    /\ skipWaitingFlag = FALSE
    /\ controller \in {"old", "none"}
    /\ install = [pc |-> "idle", fetched |-> EmptyEntries]
    /\ activate = [pc |-> "idle", names |-> <<>>, pending |-> {}]
    /\ fetches = [h \in FetchIds |-> IdleFetch]
    /\ notification = None
    /\ push = None
    /\ click = IdleClick
    /\ windows = <<>>
    /\ msg = None
    /\ inbox = [p \in Ports |-> <<>>]
    /\ sync = [pc |-> "idle", tag |-> ""]

\* ----------------------------------------------------------------- install
\* The platform dispatches 'install' to a newly registered version.
InstallEvent ==
    /\ state = "parsed"
    /\ state' = "installing"
    /\ install' = [pc |-> "open", fetched |-> EmptyEntries]
    /\ UNCHANGED <<caches, skipWaitingFlag, controller, activate, fetches,
                   notifyVars, channelVars, sync>>

\* caches.open(CACHE_NAME) resolves.
InstallOpen ==
    /\ install.pc = "open"
    /\ caches' = CacheOpen(caches, CACHE_NAME)
    /\ install' = [install EXCEPT !.pc = "addAll"]
    /\ UNCHANGED <<state, skipWaitingFlag, controller, activate, fetches,
                   notifyVars, channelVars, sync>>

ManifestRequests == { GET(urlsToCache[i]) : i \in 1..Len(urlsToCache) }

\* cache.addAll: one manifest request is answered with an ok response; it is
\* held until every request has been answered.
AddAllHold(fetched, req, resp) == PutEntry(fetched, req, resp)
\* Variant of AddAllFetch for C6: each response is stored as it arrives.
AddAllFetchEager(req, resp) ==
    /\ install.pc = "addAll"
    /\ req \in ManifestRequests \ DOMAIN install.fetched
    /\ resp.status = StatusOk
    /\ install' = [install EXCEPT !.fetched = AddAllHold(@, req, resp)]
    /\ caches' = CachePut(caches, CACHE_NAME, req, resp)
    /\ UNCHANGED <<state, skipWaitingFlag, controller, activate,
                   fetches, notifyVars, channelVars, sync>>

AddAllFetch(req, resp) ==
    /\ install.pc = "addAll"
    /\ req \in ManifestRequests \ DOMAIN install.fetched
    /\ resp.status = StatusOk
    /\ install' = [install EXCEPT !.fetched = AddAllHold(@, req, resp)]
    /\ UNCHANGED <<caches, state, skipWaitingFlag, controller, activate,
                   fetches, notifyVars, channelVars, sync>>

\* cache.addAll rejects: a manifest request got a non-ok response or a
\* network error. Nothing is stored, the responses held so far are dropped
\* with the promise; the waitUntil promise rejects and the platform discards
\* the version.
AddAllReject(req) ==
    /\ install.pc = "addAll"
    /\ req \in ManifestRequests \ DOMAIN install.fetched
    /\ install' = [install EXCEPT !.pc = "failed"]
    /\ state' = "redundant"
    /\ UNCHANGED <<caches, skipWaitingFlag, controller, activate, fetches,
                   notifyVars, channelVars, sync>>

\* Variant of PutAll for C5: only one of the responses is stored.
PutAllFirstOnly(cs, name, fetched) ==
    IF DOMAIN fetched = {} THEN cs
    ELSE LET k == CHOOSE k \in DOMAIN fetched : TRUE
         IN CachePut(cs, name, k, fetched[k])

\* The entries cache.addAll stores once it has every response.
RECURSIVE PutAll(_, _, _)
PutAll(cs, name, fetched) ==
    IF DOMAIN fetched = {} THEN cs
    ELSE LET k == CHOOSE k \in DOMAIN fetched : TRUE
         IN PutAll(CachePut(cs, name, k, fetched[k]), name,
                   [j \in DOMAIN fetched \ {k} |-> fetched[j]])

\* cache.addAll resolves: every response is stored in one batch.
AddAllCommit ==
    /\ install.pc = "addAll"
    /\ DOMAIN install.fetched = ManifestRequests
    /\ caches' = PutAll(caches, CACHE_NAME, install.fetched)
    /\ install' = [pc |-> "skipWaiting", fetched |-> EmptyEntries]
    /\ UNCHANGED <<state, skipWaitingFlag, controller, activate, fetches,
                   notifyVars, channelVars, sync>>

\* .then(() => self.skipWaiting()): the chain settles, install succeeded.
InstallSkipWaiting ==
    /\ install.pc = "skipWaiting"
    /\ skipWaitingFlag' = TRUE
    /\ install' = [install EXCEPT !.pc = "done"]
    /\ state' = "installed"
    /\ UNCHANGED <<caches, controller, activate, fetches,
                   notifyVars, channelVars, sync>>

\* ---------------------------------------------------------------- activate
\* The platform activates a waiting version once skipWaiting was called or
\* no window is controlled by the old version; 'activate' is dispatched.
ActivateEvent ==
    /\ state = "installed"
    /\ skipWaitingFlag \/ controller # "old"
    /\ state' = "activating"
    /\ activate' = [pc |-> "keys", names |-> <<>>, pending |-> {}]
    /\ UNCHANGED <<caches, skipWaitingFlag, controller, install, fetches,
                   notifyVars, channelVars, sync>>

\* Variant of StaleNames for C17: every cache is deleted, the current one too.
StaleNamesAll(names) == { names[i] : i \in 1..Len(names) }

\* Variant of StaleNames for C7: only the first stale cache is deleted.
StaleNamesFirstOnly(names) ==
    LET stale == { j \in 1..Len(names) : names[j] # CACHE_NAME }
    IN IF stale = {} THEN {}
       ELSE { names[CHOOSE j \in stale : \A k \in stale : j <= k] }

\* cacheNames.map(...): the names caches.delete is called with.
StaleNames(names) == { names[i] : i \in { j \in 1..Len(names) : names[j] # CACHE_NAME } }

\* caches.keys() resolves; caches.delete is started for every stale name.
ActivateKeys ==
    /\ activate.pc = "keys"
    /\ activate' = [pc |-> "deleting", names |-> CacheKeys(caches),
                     pending |-> StaleNames(CacheKeys(caches))]
    /\ UNCHANGED <<caches, state, skipWaitingFlag, controller, install, fetches,
                   notifyVars, channelVars, sync>>

\* One caches.delete(cacheName) completes.
ActivateDelete(name) ==
    /\ activate.pc = "deleting"
    /\ name \in activate.pending
    /\ caches' = CacheDelete(caches, name)
    /\ activate' = [activate EXCEPT !.pending = @ \ {name}]
    /\ UNCHANGED <<state, skipWaitingFlag, controller, install, fetches,
                   notifyVars, channelVars, sync>>

\* Variant of ActivateClaim for C14: claim does not wait for the deletions.
ActivateClaimEarly ==
    /\ activate.pc = "deleting"
    /\ controller' = "this"
    /\ activate' = [activate EXCEPT !.pc = "claimed"]
    /\ UNCHANGED <<caches, state, skipWaitingFlag, install, fetches,
                   notifyVars, channelVars, sync>>

\* Promise.all resolved; .then(() => self.clients.claim()).
ActivateClaim ==
    /\ activate.pc = "deleting"
    /\ activate.pending = {}
    /\ controller' = "this"
    /\ activate' = [activate EXCEPT !.pc = "claimed"]
    /\ UNCHANGED <<caches, state, skipWaitingFlag, install, fetches,
                   notifyVars, channelVars, sync>>

\* The waitUntil promise settled: the version is activated.
ActivateDone ==
    /\ activate.pc = "claimed"
    /\ state' = "activated"
    /\ activate' = [pc |-> "done", names |-> <<>>, pending |-> {}]
    /\ UNCHANGED <<caches, skipWaitingFlag, controller, install, fetches,
                   notifyVars, channelVars, sync>>

\* ------------------------------------------------------------------- fetch
\* A slot is free when its event was answered and its detached cache write
\* is no longer running.
WriteRunning(f) == f.write \in {"open", "put"}
SlotFree(f) == f.pc \in {"idle", "done"} /\ ~WriteRunning(f)

\* The platform dispatches 'fetch' for a request of a controlled window;
\* respondWith(caches.match(event.request)...) starts the lookup.
FetchEvent(h, req) ==
    /\ state = "activated"
    /\ SlotFree(fetches[h])
    /\ fetches' = [fetches EXCEPT ![h] = [IdleFetch EXCEPT !.pc = "match",
                                                          !.request = req]]
    /\ UNCHANGED <<caches, lifecycleVars, notifyVars, channelVars, sync>>

\* .then((response) => { if (response) return response; return fetch(...) })
\* The record of one handler after caches.match resolved with found.
\* Variant of AfterMatch for C1: the network is asked whatever was found.
AfterMatchNetworkFirst(f, found) ==
    [f EXCEPT !.pc = "network", !.net = "pending"]

AfterMatch(f, found) ==
    IF found # None
    THEN [f EXCEPT !.pc = "done", !.hit = TRUE, !.response = found]
    ELSE [f EXCEPT !.pc = "network", !.net = "pending"]

FetchMatch(h) ==
    /\ fetches[h].pc = "match"
    /\ fetches' = [fetches EXCEPT
                     ![h] = AfterMatch(@, CacheMatch(caches, fetches[h].request))]
    /\ UNCHANGED <<caches, lifecycleVars, notifyVars, channelVars, sync>>

\* event.request.url.includes('/api/')
IsApi(req) == Includes(req.url, ApiPattern)

\* Variant of Cacheable for C3: without the API check.
CacheableAnyUrl(req, resp) == resp.status = StatusOk

\* response && response.status === 200
Cacheable(req, resp) == ~IsApi(req) /\ resp.status = StatusOk

\* fetch(event.request).then((response) => {...}): the handler's record after
\* the network answered. A cacheable response is cloned and the detached
\* caches.open(CACHE_NAME).then(put) is started; the response is returned.
AfterNetwork(f, resp) ==
    IF Cacheable(f.request, resp)
    THEN [f EXCEPT !.pc = "done", !.net = "fulfilled", !.response = resp,
                   !.toCache = Clone(resp), !.write = "open"]
    ELSE [f EXCEPT !.pc = "done", !.net = "fulfilled", !.response = resp]

FetchNetwork(h, resp) ==
    /\ fetches[h].pc = "network"
    /\ fetches' = [fetches EXCEPT ![h] = AfterNetwork(@, resp)]
    /\ UNCHANGED <<caches, lifecycleVars, notifyVars, channelVars, sync>>

\* fetch rejects (no connectivity): .catch(() => new Response(..., 503))
\* Variant of AfterNetworkError for C4: without the catch.
AfterNetworkErrorUncaught(f) ==
    [f EXCEPT !.pc = "done", !.net = "rejected"]

AfterNetworkError(f) ==
    [f EXCEPT !.pc = "done", !.net = "rejected", !.response = OfflineResponse]

FetchNetworkError(h) ==
    /\ fetches[h].pc = "network"
    /\ fetches' = [fetches EXCEPT ![h] = AfterNetworkError(@)]
    /\ UNCHANGED <<caches, lifecycleVars, notifyVars, channelVars, sync>>

\* Variant of WriteOpen for C19: the write opens a cache of its own.
WriteOpenRuntime(h) ==
    /\ fetches[h].write = "open"
    /\ caches' = CacheOpen(caches, "pix-notifier-runtime")
    /\ fetches' = [fetches EXCEPT ![h].write = "put"]
    /\ UNCHANGED <<lifecycleVars, notifyVars, channelVars, sync>>

\* The detached caches.open(CACHE_NAME) resolves and its callback calls
\* cache.put(event.request, responseToCache).
WriteOpen(h) ==
    /\ fetches[h].write = "open"
    /\ caches' = CacheOpen(caches, CACHE_NAME)
    /\ fetches' = [fetches EXCEPT ![h].write = "put"]
    /\ UNCHANGED <<lifecycleVars, notifyVars, channelVars, sync>>

\* cache.put stores the entry. It rejects (TypeError) for a request that is
\* not a GET.
WritePut(h) ==
    /\ fetches[h].write = "put"
    /\ IF fetches[h].request.method = "GET"
       THEN /\ caches' = CachePut(caches, CACHE_NAME, fetches[h].request,
                                  fetches[h].toCache)
            /\ fetches' = [fetches EXCEPT ![h].write = "done"]
       ELSE /\ caches' = caches
            /\ fetches' = [fetches EXCEPT ![h].write = "rejected"]
    /\ UNCHANGED <<lifecycleVars, notifyVars, channelVars, sync>>

\* Variant of WriteFail for C16: the failure reaches the response path.
WriteFailSurfaced(h) ==
    /\ WriteRunning(fetches[h])
    /\ fetches' = [fetches EXCEPT ![h].write = "failed",
                                   ![h].response = OfflineResponse]
    /\ UNCHANGED <<caches, lifecycleVars, notifyVars, channelVars, sync>>

\* The detached write fails (storage error, quota): nobody observes it.
WriteFail(h) ==
    /\ WriteRunning(fetches[h])
    /\ fetches' = [fetches EXCEPT ![h].write = "failed"]
    /\ UNCHANGED <<caches, lifecycleVars, notifyVars, channelVars, sync>>

\* Work registered with the platform: event.waitUntil / event.respondWith
\* promises that have not settled, and an event being dispatched.
RegisteredWork ==
    \/ install.pc \in {"open", "addAll", "skipWaiting"}
    \/ activate.pc \in {"keys", "deleting", "claimed"}
    \/ \E h \in FetchIds : fetches[h].pc \in {"match", "network"}
    \/ push # None
    \/ click.pc = "matchAll"
    \/ msg # None
    \/ sync.pc = "checking"

\* The platform stops the idle worker: callbacks of promises nobody
\* registered never run.
Terminate ==
    /\ ~RegisteredWork
    /\ \E h \in FetchIds : WriteRunning(fetches[h])
    /\ fetches' = [h \in FetchIds |->
                     IF WriteRunning(fetches[h])
                     THEN [fetches[h] EXCEPT !.write = "lost"]
                     ELSE fetches[h]]
    /\ UNCHANGED <<caches, lifecycleVars, notifyVars, channelVars, sync>>

\* -------------------------------------------------------------------- push
\* The handlers of push, notificationclick, message and sync share no state;
\* the platform is modelled as dispatching the next of these events when the
\* previous one's handler has settled.
HandlerBusy ==
    push # None \/ click.pc = "matchAll" \/ msg # None \/ sync.pc = "checking"

PushTexts == {"R$50,00 recebido", ""}
\* event.data: null, or a PushMessageData whose text() is the payload text.
PushData == {None} \cup [text : PushTexts]

DefaultBody == "Novo PIX gerado!"
IconUrl == "https://cdn-icons-png.flaticon.com/512/825/825454.png"

\* Variant of Options for C9: an empty payload text also gets the default.
OptionsTextOrDefault(data) ==
    [body |-> IF data # None /\ data.text # "" THEN data.text ELSE DefaultBody,
     icon |-> IconUrl,
     badge |-> IconUrl,
     vibrate |-> <<200, 100, 200, 100, 200>>,
     tag |-> "pix-notification",
     requireInteraction |-> TRUE,
     actions |-> << [action |-> "view", title |-> "Ver Detalhes",
                     icon |-> "https://cdn-icons-png.flaticon.com/512/709/709612.png"],
                    [action |-> "close", title |-> "Fechar",
                     icon |-> "https://cdn-icons-png.flaticon.com/512/458/458594.png"] >>]

\* const options = {...}
Options(data) ==
    [body |-> IF data # None THEN data.text ELSE DefaultBody,
     icon |-> IconUrl,
     badge |-> IconUrl,
     vibrate |-> <<200, 100, 200, 100, 200>>,
     tag |-> "pix-notification",
     requireInteraction |-> TRUE,
     actions |-> << [action |-> "view", title |-> "Ver Detalhes",
                     icon |-> "https://cdn-icons-png.flaticon.com/512/709/709612.png"],
                    [action |-> "close", title |-> "Fechar",
                     icon |-> "https://cdn-icons-png.flaticon.com/512/458/458594.png"] >>]

NotificationTitle == "Novo PIX!"

\* 'push': the options are built and showNotification is called inside
\* event.waitUntil.
PushEvent(data) ==
    /\ state = "activated"
    /\ ~HandlerBusy
    /\ push' = [data |-> data, options |-> Options(data)]
    /\ UNCHANGED <<caches, lifecycleVars, fetches, notification, click, windows,
                   channelVars, sync>>

\* showNotification resolves: the notification is displayed; one with the
\* same tag is replaced.
ShowNotification ==
    /\ push # None
    /\ notification' = [title |-> NotificationTitle, data |-> push.data,
                        options |-> push.options]
    /\ push' = None
    /\ UNCHANGED <<caches, lifecycleVars, fetches, click, windows,
                   channelVars, sync>>

\* showNotification rejects (permission withdrawn): nothing is displayed.
ShowNotificationFail ==
    /\ push # None
    /\ push' = None
    /\ UNCHANGED <<caches, lifecycleVars, fetches, notification, click, windows,
                   channelVars, sync>>

\* ------------------------------------------------------- notificationclick
ClickActions == {"view", "close", ""}

\* client.url.includes('index.html') && 'focus' in client
IsEntryWindow(url) == Includes(url, EntryPattern)

\* Variant of FirstEntryWindow for C8: no window ever matches.
FirstEntryWindowNone(clientList) == 0

\* The for loop: the index of the first window client that matches, 0 if none.
FirstEntryWindow(clientList) ==
    LET m == { i \in 1..Len(clientList) : IsEntryWindow(clientList[i]) }
    IN IF m = {} THEN 0 ELSE CHOOSE i \in m : \A j \in m : i <= j

\* 'notificationclick': event.notification.close(), then for the 'view'
\* action clients.matchAll is called inside event.waitUntil.
\* Variant of AfterClick for C15: every click goes on to the windows.
AfterClickAlwaysNavigate(action) ==
    [pc |-> "matchAll", action |-> action, focused |-> <<>>, opened |-> <<>>]

AfterClick(action) ==
    [pc |-> IF action = "view" THEN "matchAll" ELSE "idle",
     action |-> action, focused |-> <<>>, opened |-> <<>>]

NotificationClick(action) ==
    /\ state = "activated"
    /\ notification # None
    /\ ~HandlerBusy
    /\ action = "view" =>
         (Len(windows) < MaxWindows \/ FirstEntryWindow(windows) # 0)
    /\ notification' = None
    /\ click' = AfterClick(action)
    /\ UNCHANGED <<caches, lifecycleVars, fetches, push, windows,
                   channelVars, sync>>

\* clients.matchAll resolves with the open windows; the first entry window
\* is focused, or a new window is opened at '/'.
ClickResolve ==
    /\ click.pc = "matchAll"
    /\ LET i == FirstEntryWindow(windows)
       IN IF i # 0
          THEN /\ click' = [click EXCEPT !.pc = "idle", !.focused = <<i>>]
               /\ windows' = windows
          ELSE /\ click' = [click EXCEPT !.pc = "idle", !.opened = <<RootUrl>>]
               /\ windows' = Append(windows, RootUrl)
    /\ UNCHANGED <<caches, lifecycleVars, fetches, notification, push,
                   channelVars, sync>>

\* 'notificationclose': the user dismissed the notification; only a log.
NotificationClose ==
    /\ state = "activated"
    /\ notification # None
    /\ notification' = None
    /\ UNCHANGED <<caches, lifecycleVars, fetches, push, click, windows,
                   channelVars, sync>>

\* The user opens or closes an application window.
UserOpenWindow(url) ==
    /\ Len(windows) < MaxWindows
    /\ click.pc = "idle"
    /\ windows' = Append(windows, url)
    /\ UNCHANGED <<caches, lifecycleVars, fetches, notification, push, click,
                   channelVars, sync>>

UserCloseWindow(i) ==
    /\ i \in 1..Len(windows)
    /\ windows' = [j \in 1..(Len(windows) - 1) |->
                     IF j < i THEN windows[j] ELSE windows[j + 1]]
    /\ UNCHANGED <<caches, lifecycleVars, fetches, notification, push, click,
                   channelVars, sync>>

\* ----------------------------------------------------------------- message
\* event.data and event.ports of the messages a window may post.
Messages ==
    { [data |-> None, ports |-> <<>>],
      [data |-> [type |-> "SKIP_WAITING"], ports |-> <<>>],
      [data |-> [type |-> "PING"], ports |-> <<"p1">>],
      [data |-> [type |-> "PING"], ports |-> <<"p2", "p1">>],
      [data |-> [type |-> "PING"], ports |-> <<>>],
      [data |-> [type |-> "OTHER"], ports |-> <<"p1">>] }

Pong == [type |-> "PONG", status |-> "Service Worker ativo"]

IsType(m, t) == m.data # None /\ m.data.type = t

\* A window posts a message to the worker.
MessageEvent(m) ==
    /\ state \in {"installing", "installed", "activating", "activated"}
    /\ ~HandlerBusy
    /\ \A i \in 1..Len(m.ports) : Len(inbox[m.ports[i]]) < MaxInbox
    /\ msg' = m
    /\ UNCHANGED <<caches, lifecycleVars, fetches, notifyVars, inbox, sync>>

\* Variant of FlagAfterMessage for C18: any message with data skips waiting.
FlagAfterMessageAnyType(m, flag) == IF m.data # None THEN TRUE ELSE flag

\* if (type === 'SKIP_WAITING') self.skipWaiting();
FlagAfterMessage(m, flag) == IF IsType(m, "SKIP_WAITING") THEN TRUE ELSE flag

\* Variant of InboxAfterMessage for C10: a PONG on every port of the message.
InboxAfterMessageAllPorts(m, box) ==
    IF IsType(m, "PING")
    THEN [p \in DOMAIN box |->
            IF p \in Range(m.ports) THEN Append(box[p], Pong) ELSE box[p]]
    ELSE box

\* if (type === 'PING') event.ports[0].postMessage({PONG}); without a port
\* the property read throws and nothing is posted.
InboxAfterMessage(m, box) ==
    IF IsType(m, "PING") /\ Len(m.ports) > 0
    THEN [box EXCEPT ![m.ports[1]] = Append(@, Pong)]
    ELSE box

\* The 'message' listener runs.
HandleMessage ==
    /\ msg # None
    /\ skipWaitingFlag' = FlagAfterMessage(msg, skipWaitingFlag)
    /\ inbox' = InboxAfterMessage(msg, inbox)
    /\ msg' = None
    /\ UNCHANGED <<caches, state, controller, install, activate, fetches,
                   notifyVars, sync>>

\* The window reads a reply from its port.
PortReceive(p) ==
    /\ inbox[p] # <<>>
    /\ inbox' = [inbox EXCEPT ![p] = Tail(@)]
    /\ UNCHANGED <<caches, lifecycleVars, fetches, notifyVars, msg, sync>>

\* -------------------------------------------------------------------- sync
SyncTag == "sync-pix"
SyncTags == {SyncTag, "other"}

\* 'sync': for the tag sync-pix, checkPixStatus() is passed to waitUntil.
SyncEvent(tag) ==
    /\ state = "activated"
    /\ ~HandlerBusy
    /\ sync' = [pc |-> IF tag = SyncTag THEN "checking" ELSE "idle", tag |-> tag]
    /\ UNCHANGED <<caches, lifecycleVars, fetches, notifyVars, channelVars>>

\* checkPixStatus() resolves.
checkPixStatus ==
    /\ sync.pc = "checking"
    /\ sync' = [sync EXCEPT !.pc = "idle"]
    /\ UNCHANGED <<caches, lifecycleVars, fetches, notifyVars, channelVars>>

\* ---------------------------------------------------------- specifications
NextLifecycle ==
    \/ InstallEvent \/ InstallOpen
    \/ \E req \in ManifestRequests : \E resp \in ManifestResponses : AddAllFetch(req, resp)
    \/ \E req \in ManifestRequests : AddAllReject(req)
    \/ AddAllCommit \/ InstallSkipWaiting
    \/ ActivateEvent \/ ActivateKeys
    \/ \E n \in activate.pending : ActivateDelete(n)
    \/ ActivateClaim \/ ActivateDone

NextFetch ==
    \/ \E h \in FetchIds : \E req \in Requests : FetchEvent(h, req)
    \/ \E h \in FetchIds :
         \/ FetchMatch(h)
         \/ \E resp \in NetResponses : FetchNetwork(h, resp)
         \/ FetchNetworkError(h)
         \/ WriteOpen(h) \/ WritePut(h) \/ WriteFail(h)
    \/ Terminate

NextNotify ==
    \/ \E data \in PushData : PushEvent(data)
    \/ ShowNotification \/ ShowNotificationFail
    \/ \E a \in ClickActions : NotificationClick(a)
    \/ ClickResolve \/ NotificationClose
    \/ \E url \in WindowUrls : UserOpenWindow(url)
    \/ \E i \in 1..MaxWindows : UserCloseWindow(i)
    \/ \E m \in Messages : MessageEvent(m)
    \/ HandleMessage
    \/ \E p \in Ports : PortReceive(p)
    \/ \E tag \in SyncTags : SyncEvent(tag)
    \/ checkPixStatus

Next == NextLifecycle \/ NextFetch \/ NextNotify

\* Every event of the worker.
Spec == Init /\ [][Next]_vars

\* The cache side: lifecycle and the fetch interceptor.
SpecCache == Init /\ [][NextLifecycle \/ NextFetch]_vars

\* The event side: lifecycle, push, clicks, messages and sync.
SpecNotify == Init /\ [][NextLifecycle \/ NextNotify]_vars

\* Fetch events while the network is unavailable: every fetch rejects. The
\* events are independent (nothing is written), one is handled at a time.
NextOffline ==
    \/ \E req \in Requests : FetchEvent(1, req)
    \/ FetchMatch(1)
    \/ FetchNetworkError(1)

\* Every kind of event, with the network unavailable to the interceptor.
SpecOffline == Init /\ [][NextLifecycle \/ NextOffline \/ NextNotify]_vars

\* The event side under the platform's scheduling: a waiting version whose
\* activation is due is activated, and the promises of the activate handler
\* (caches.keys, caches.delete, clients.claim) settle.
SpecNotifyFair ==
    /\ SpecNotify
    /\ WF_vars(ActivateEvent)
    /\ WF_vars(ActivateKeys)
    /\ WF_vars(\E n \in activate.pending : ActivateDelete(n))
    /\ WF_vars(ActivateClaim)
    /\ WF_vars(ActivateDone)

\* ------------------------------------------------------------------ claims
\* C1: when the lookup of a fetch event finds the request key in the Cache
\* Store, the event is answered with the stored entry and no network request
\* is issued for it; a network request is only ever started by a lookup that
\* found nothing.
C1_CacheBeforeNetwork ==
    [][\A h \in FetchIds :
          /\ (/\ fetches[h].pc = "match"
              /\ fetches'[h].pc # "match"
              /\ CacheMatch(caches, fetches[h].request) # None)
             => /\ fetches'[h].pc = "done"
                /\ fetches'[h].response = CacheMatch(caches, fetches[h].request)
                /\ fetches'[h].net = "none"
          /\ (fetches[h].net = "none" /\ fetches'[h].net # "none")
             => /\ fetches[h].pc = "match"
                /\ CacheMatch(caches, fetches[h].request) = None]_vars

C1_Witness ==
    \E h \in FetchIds :
        /\ fetches[h].pc = "done"
        /\ fetches[h].hit
        /\ fetches[h].net = "none"
        /\ fetches[h].response # None

\* C2 (as claimed): once a non-API request that missed the cache was answered
\* with a status-200 network response and its cache write is no longer
\* running (and the storage did not fail), the Cache Store holds an entry
\* under the request's key whose body equals the body the caller received.
C2_EntryCreated ==
    \A h \in FetchIds :
        (/\ fetches[h].pc = "done"
         /\ fetches[h].net = "fulfilled"
         /\ ~Includes(fetches[h].request.url, <<"/", "api", "/">>)
         /\ fetches[h].response.status = 200
         /\ fetches[h].write \notin {"open", "put", "failed"})
        => /\ CacheMatch(caches, fetches[h].request) # None
           /\ CacheMatch(caches, fetches[h].request).body = fetches[h].response.body

\* C3: no cache holds an entry whose request URL contains '/api/', and a
\* fetch event for such a URL never starts a cache write, whatever the status
\* of the response.
C3_NoApiEntry ==
    /\ \A i \in 1..Len(caches) : \A k \in DOMAIN caches[i].entries :
          ~Includes(k.url, <<"/", "api", "/">>)
    /\ \A h \in FetchIds :
          (fetches[h].pc # "idle" /\ Includes(fetches[h].request.url, <<"/", "api", "/">>))
          => fetches[h].write = "none" /\ fetches[h].toCache = None

C3_Witness ==
    \E h \in FetchIds :
        /\ fetches[h].pc = "done"
        /\ Includes(fetches[h].request.url, <<"/", "api", "/">>)
        /\ fetches[h].net = "fulfilled"
        /\ fetches[h].response.status = 200

\* C4: every answered fetch event has a response (the respondWith promise
\* never rejects), and when the network call failed after a cache miss the
\* response is the fallback with status 503 and Content-Type text/plain.
C4_OfflineFallback ==
    \A h \in FetchIds :
        /\ fetches[h].pc = "done" => fetches[h].response # None
        /\ (fetches[h].pc = "done" /\ fetches[h].net = "rejected")
           => /\ fetches[h].response.status = 503
              /\ fetches[h].response.contentType = "text/plain"

C4_Witness ==
    \E h \in FetchIds :
        /\ fetches[h].pc = "done"
        /\ fetches[h].net = "rejected"
        /\ ~fetches[h].hit
        /\ fetches[h].response.status = 503

\* C5: once install has completed successfully, every Manifest resource
\* ('/', '/index.html', '/manifest.json') has an entry in the cache named
\* with the current version, and a lookup of it returns an entry.
C5_ManifestCached ==
    state \in {"installed", "activating", "activated"}
    => \A i \in 1..Len(urlsToCache) :
          /\ [method |-> "GET", url |-> urlsToCache[i]]
                \in DOMAIN EntriesOf(caches, "pix-notifier-v1")
          /\ CacheMatch(caches, [method |-> "GET", url |-> urlsToCache[i]]) # None

C5_Witness ==
    /\ state = "installed"
    /\ install.pc = "done"
    /\ Cardinality(DOMAIN EntriesOf(caches, CACHE_NAME)) = Len(urlsToCache)

\* C6: install is all-or-nothing. While the manifest is being fetched and
\* after a manifest fetch failed, the current-version cache holds no entry;
\* a failed install has not called skipWaiting, the version is discarded
\* (redundant) and a discarded version never changes state again.
C6_AllOrNothing ==
    /\ [](install.pc \in {"open", "addAll", "failed"}
            => EntriesOf(caches, "pix-notifier-v1") = EmptyEntries)
    /\ [](install.pc = "failed" => state = "redundant" /\ ~skipWaitingFlag)
    /\ [][state = "redundant" => state' = "redundant"]_vars

C6_Witness ==
    /\ install.pc = "failed"
    /\ state = "redundant"
    /\ DOMAIN install.fetched # {}
    /\ HasCache(caches, CACHE_NAME)

\* C7: when activation has completed, whatever caches existed before it,
\* exactly one cache remains and it is the one named with the current
\* version.
C7_OnlyCurrentCache ==
    (activate.pc \in {"claimed", "done"} \/ state = "activated")
    => /\ Len(caches) = 1
       /\ caches[1].name = "pix-notifier-v1"

C7_Witness ==
    /\ activate.pc = "claimed"
    /\ Len(activate.names) = 3
    /\ CacheNamesOf(caches) = {CACHE_NAME}

C9_NotificationBody ==
    notification # None
    => /\ notification.options.body =
             (IF notification.data # None THEN notification.data.text
              ELSE "Novo PIX gerado!")
       /\ notification.options.requireInteraction = TRUE
       /\ [i \in 1..Len(notification.options.actions) |->
             notification.options.actions[i].action] = <<"view", "close">>

C9_Witness ==
    /\ notification # None
    /\ notification.data = [text |-> "R$50,00 recebido"]
    /\ notification.options.body = "R$50,00 recebido"

\* C10: the handling of a PING message that carries a reply port posts
\* exactly one PONG with the status 'Service Worker ativo' to the first port
\* of the message and changes nothing else: no cache, lifecycle, fetch,
\* notification, window or sync state.
C10_PingPong ==
    [][(/\ msg # None
        /\ msg' = None
        /\ msg.data # None
        /\ msg.data.type = "PING"
        /\ Len(msg.ports) > 0)
       => /\ inbox' = [inbox EXCEPT ![msg.ports[1]] =
                          Append(@, [type |-> "PONG",
                                     status |-> "Service Worker ativo"])]
          /\ UNCHANGED <<caches, state, skipWaitingFlag, controller, install,
                         activate, fetches, notification, push, click,
                         windows, sync>>]_vars

C10_Witness ==
    /\ msg = None
    /\ inbox["p2"] = << [type |-> "PONG", status |-> "Service Worker ativo"] >>
    /\ inbox["p1"] = <<>>


\* C11 (as claimed): every entry of every cache is keyed by a same-origin,
\* non-API request and holds a response with status 200.
C11_EntriesSameOrigin200 ==
    \A i \in 1..Len(caches) : \A k \in DOMAIN caches[i].entries :
        /\ k.url[1] = Origin
        /\ ~Includes(k.url, <<"/", "api", "/">>)
        /\ caches[i].entries[k].status = 200

\* C12 (amended): handling fetch events never deletes a cache or an entry:
\* whenever a cache disappears or loses a key, the step is a deletion of the
\* activate handler. A later write to a key may replace its stored response.
C12_OnlyActivationRemoves ==
    [][(\E i \in 1..Len(caches) :
           \/ ~HasCache(caches', caches[i].name)
           \/ ~(DOMAIN caches[i].entries
                  \subseteq DOMAIN EntriesOf(caches', caches[i].name)))
       => /\ state = "activating"
          /\ activate.pc = "deleting"
          /\ fetches' = fetches]_vars

\* Two fetch events for the same key both missed and both wrote, with
\* different bodies.
C12_Witness ==
    \E h1, h2 \in FetchIds :
        /\ h1 # h2
        /\ fetches[h1].request = fetches[h2].request
        /\ fetches[h1].write = "done"
        /\ fetches[h2].write = "done"
        /\ fetches[h1].response.body # fetches[h2].response.body
        /\ fetches[h1].request \in DOMAIN EntriesOf(caches, CACHE_NAME)

\* C12 (as claimed): while fetch events are handled (the version is
\* activated), every entry of every cache stays, with its stored response.
C12_NeverReplaces ==
    [][state = "activated"
       => \A i \in 1..Len(caches) : \A k \in DOMAIN caches[i].entries :
             /\ k \in DOMAIN EntriesOf(caches', caches[i].name)
             /\ EntriesOf(caches', caches[i].name)[k] = caches[i].entries[k]]_vars

\* C13 (as claimed): whenever a cache write of the interceptor is running,
\* the worker has work registered with waitUntil / respondWith, and no
\* started write is ever lost to the worker being stopped.
C13_WritesRegistered ==
    \A h \in FetchIds :
        /\ WriteRunning(fetches[h]) => RegisteredWork
        /\ fetches[h].write # "lost"


\* C14: the windows are taken over (clients.claim) only when every deletion
\* of a stale cache has completed, whatever their number and order, and the
\* version is activated only after the deletions and the takeover.
C14_ClaimAfterDeletes ==
    /\ controller = "this"
       => /\ activate.pc \in {"claimed", "done"}
          /\ activate.pending = {}
          /\ \A i \in 1..Len(caches) : caches[i].name = "pix-notifier-v1"
    /\ state = "activated"
       => /\ controller = "this"
          /\ activate.pc = "done"

C14_Witness ==
    /\ state = "activating"
    /\ controller = "this"
    /\ activate.pending = {}
    /\ Len(activate.names) = 3
    /\ Len(caches) = 1

\* C15: every notification click closes the notification; a click whose
\* action is not 'view' does nothing else: the handler does not go on to the
\* windows, focuses and opens nothing, and windows, caches and all other
\* state are unchanged.
C15_CloseOnly ==
    [][/\ (click.pc = "idle" /\ click' # click) => notification' = None
       /\ (notification # None /\ notification' = None)
          => /\ UNCHANGED <<caches, lifecycleVars, fetches, push, windows,
                            channelVars, sync>>
             /\ \/ click' = click
                \/ click'.pc = "matchAll" /\ click'.action = "view"
                \/ /\ click'.pc = "idle"
                   /\ click'.action \in {"close", ""}
                   /\ click'.focused = <<>>
                   /\ click'.opened = <<>>]_vars

C15_Witness ==
    /\ click = [pc |-> "idle", action |-> "close", focused |-> <<>>, opened |-> <<>>]
    /\ notification = None
    /\ windows # <<>>

\* C16: from the moment the interceptor starts its cache write, and whether
\* the write is running, has succeeded, has failed or was lost, the response
\* delivered to the caller is the status-200 network response it cloned.
C16_WriteDoesNotAffectResponse ==
    \A h \in FetchIds :
        fetches[h].write # "none"
        => /\ fetches[h].pc = "done"
           /\ fetches[h].net = "fulfilled"
           /\ fetches[h].response \in NetResponses
           /\ fetches[h].response.status = 200
           /\ fetches[h].response = fetches[h].toCache

C16_Witness ==
    \E h \in FetchIds :
        /\ fetches[h].write = "failed"
        /\ fetches[h].pc = "done"
        /\ fetches[h].response.status = 200
        /\ CacheMatch(caches, fetches[h].request) = None


\* C17: once the version is activated, and through fetch, push, click, close,
\* message and sync events with the network unavailable, every Manifest
\* resource has its entry in the current-version cache and every request for
\* one is answered with that entry, never with the 503 fallback.
C17_ShellAvailableOffline ==
    state = "activated"
    => /\ \A i \in 1..Len(urlsToCache) :
             [method |-> "GET", url |-> urlsToCache[i]]
                \in DOMAIN EntriesOf(caches, "pix-notifier-v1")
       /\ \A h \in FetchIds :
             (/\ fetches[h].pc = "done"
              /\ \E i \in 1..Len(urlsToCache) :
                    fetches[h].request = [method |-> "GET", url |-> urlsToCache[i]])
             => /\ fetches[h].net = "none"
                /\ fetches[h].response # None
                /\ fetches[h].response.status # 503
                /\ fetches[h].response =
                      EntriesOf(caches, "pix-notifier-v1")[fetches[h].request]

\* A manifest request answered from the cache while another request got the
\* offline fallback before it and a notification is displayed.
C17_Witness ==
    /\ state = "activated"
    /\ fetches[1].pc = "done"
    /\ fetches[1].request = GET(urlsToCache[2])
    /\ fetches[1].hit
    /\ notification # None
    /\ windows # <<>>


\* C18: handling a SKIP_WAITING message calls skipWaiting (the flag is set);
\* a message of any other type leaves the flag, the state of the version and
\* the activate handler as they are; and a waiting (installed) version that
\* receives SKIP_WAITING eventually is the activated version, also while
\* windows are controlled by the old version.
C18_SkipWaitingActivates ==
    /\ [][(msg # None /\ msg' = None)
          => /\ skipWaitingFlag' =
                   (skipWaitingFlag
                      \/ (msg.data # None /\ msg.data.type = "SKIP_WAITING"))
             /\ state' = state
             /\ activate' = activate]_vars
    /\ ((/\ msg # None
         /\ msg.data # None
         /\ msg.data.type = "SKIP_WAITING"
         /\ state = "installed")
        ~> state = "activated")

C18_Witness ==
    /\ msg # None
    /\ msg.data = [type |-> "SKIP_WAITING"]
    /\ state = "installed"
    /\ controller = "old"
    /\ windows # <<>>


\* C19: every step that creates a cache or changes the entries of a cache
\* does so to the cache named with the current version, and once the version
\* is activated no cache with another name exists.
C19_WritesOnlyCurrentCache ==
    /\ [][\A i \in 1..Len(caches') :
             (\/ ~HasCache(caches, caches'[i].name)
              \/ caches'[i].entries # EntriesOf(caches, caches'[i].name))
             => caches'[i].name = "pix-notifier-v1"]_vars
    /\ [](state = "activated"
            => \A i \in 1..Len(caches) : caches[i].name = "pix-notifier-v1")

C19_Witness ==
    /\ state = "activated"
    /\ Len(caches) = 1
    /\ Cardinality(DOMAIN EntriesOf(caches, CACHE_NAME)) > Len(urlsToCache)
    /\ \E h \in FetchIds : fetches[h].write = "done"

====
